---- MODULE Spec2Model ----
(***************************************************************************)
(* Model of fast_discrete_distribution (src/discrete-distribution.cc):     *)
(* normalize_weights, create_buckets with its two stack_views over one     *)
(* backing vector, and operator().                                         *)
(*                                                                         *)
(* Arithmetic is exact.  A double is a record: a finite value, an          *)
(* infinity or a NaN.  For a weight vector of length N and sum S, finite   *)
(* values are integers counting units of 1/(D*N), D = |S| (D = 1 when      *)
(* S = 0), so weight/S, 1.0/N and i/N are all whole numbers of units.      *)
(***************************************************************************)
EXTENDS Integers, Sequences, FiniteSets

\* Bounds of the model.
MaxN == 6
MaxW == 2

VARIABLES weights, pc, probabilities_, segments, small, large, buckets_,
          i, s, l, left_over, here, number, index, result

vars == <<weights, pc, probabilities_, segments, small, large, buckets_,
          i, s, l, left_over, here, number, index, result>>

----------------------------------------------------------------------------
\* Doubles.

Fin(x) == [t |-> "fin", v |-> x]
NaN == [t |-> "nan", v |-> 0]
PInf == [t |-> "inf", v |-> 1]
NInf == [t |-> "inf", v |-> -1]

IsNaN(a) == a.t = "nan"

FNeg(a) == IF a.t = "nan" THEN NaN ELSE [t |-> a.t, v |-> 0 - a.v]

FAdd(a, b) ==
  IF a.t = "nan" \/ b.t = "nan" THEN NaN
  ELSE IF a.t = "inf" /\ b.t = "inf" THEN (IF a.v = b.v THEN a ELSE NaN)
  ELSE IF a.t = "inf" THEN a
  ELSE IF b.t = "inf" THEN b
  ELSE Fin(a.v + b.v)

FSub(a, b) == FAdd(a, FNeg(b))

\* operator< on doubles: false whenever an operand is a NaN.
FLess(a, b) ==
  IF a.t = "nan" \/ b.t = "nan" THEN FALSE
  ELSE IF a.t = "inf" THEN a.v < 0 /\ ~(b.t = "inf" /\ b.v < 0)
  ELSE IF b.t = "inf" THEN b.v > 0
  ELSE a.v < b.v

----------------------------------------------------------------------------
\* Weights and units.

RECURSIVE Accumulate(_)
Accumulate(w) == IF Len(w) = 0 THEN 0 ELSE w[1] + Accumulate(Tail(w))

Abs(x) == IF x < 0 THEN 0 - x ELSE x

\* Number of units of 1/(D*N) in 1/N.
Scale(w) == IF Accumulate(w) = 0 THEN 1 ELSE Abs(Accumulate(w))

\* weight / sum, in units of 1/(|sum|*n).
Quotient(weight, sum, n) ==
  IF sum = 0
    THEN (IF weight = 0 THEN NaN ELSE IF weight > 0 THEN PInf ELSE NInf)
    ELSE Fin(IF sum > 0 THEN weight * n ELSE 0 - weight * n)

\* 1.0 / N and static_cast<double>(i) / N.
OneOverN(d) == Fin(d)
IOverN(k, d) == Fin(k * d)

Segment(first, second) == [first |-> first, second |-> second]
Bucket(a, b, t) == [a |-> a, b |-> b, t |-> t]

----------------------------------------------------------------------------
\* stack_view: a stack over storage it does not own.  `small` counts the
\* elements of the stack growing from segments.begin(), `large` those of the
\* stack growing from segments.rbegin(); segments is indexed 1..N.

\* push without ++top_.
Pushed_Forgot(top) == top

Pushed(top) == top + 1
Popped(top) == top - 1
Empty(top) == top = 0

SmallSlot(top) == top + 1
LargeSlot(top, n) == n - top

SmallPush(segs, top, e) == [segs EXCEPT ![SmallSlot(top)] = e]
LargePush(segs, top, e, n) == [segs EXCEPT ![LargeSlot(top, n)] = e]
SmallTop(segs, top) == segs[SmallSlot(Popped(top))]
LargeTop(segs, top, n) == segs[LargeSlot(Popped(top), n)]

----------------------------------------------------------------------------
\* create_buckets: the values it computes.

N == Len(probabilities_)
D == Scale(weights)

IsSmall(p, d) == FLess(p, OneOverN(d))

\* Threshold without the light segment's mass.
Threshold_NoMass(seg, k, d) == IOverN(k, d)

Threshold(seg, k, d) == FAdd(seg.first, IOverN(k, d))

MixedBucket(ss, ll, k, d) == Bucket(ss.second, ll.second, Threshold(ss, k, d))

LeftOver(ss, ll, k, d) == FSub(FAdd(ss.first, ll.first), IOverN(k, d))

\* Pure bucket with a one-based second outcome.
PureBucket_OneBased(seg) == Bucket(seg.second, seg.second + 1, Fin(0))

PureBucket(seg) == Bucket(seg.second, seg.second, Fin(0))

EmptyTable == <<Bucket(0, 0, Fin(0))>>

NoSegment == Segment(Fin(0), 0)

----------------------------------------------------------------------------
\* operator(): a draw is a whole number k of units, number = k / (D * size),
\* 0 <= number < 1.

Size == Len(buckets_)
Draws == 0 .. (D * Size - 1)

\* floor(buckets_.size() * number).  The product of the largest draw may
\* round up to buckets_.size().
Product(k, roundsUp) ==
  IF roundsUp /\ k = D * Size - 1 THEN Size ELSE k \div D

\* operator() without the index fix.
FixIndex_Unfixed(idx, size) == idx

FixIndex(idx, size) == IF idx >= size THEN size - 1 ELSE idx

NumberLess(k, t) == FLess(Fin(k), t)

Choose(bucket, k) == IF NumberLess(k, bucket.t) THEN bucket.a ELSE bucket.b

----------------------------------------------------------------------------
\* Initial states.

Vectors(lo, n) == UNION {[1 .. m -> lo .. MaxW] : m \in 0 .. n}

Valid(w) ==
  /\ \A k \in 1 .. Len(w) : w[k] >= 0
  /\ Len(w) > 0 => Accumulate(w) > 0

InitRest ==
  /\ pc = "normalize_weights"
  /\ probabilities_ = <<>>
  /\ segments = <<>>
  /\ small = 0
  /\ large = 0
  /\ buckets_ = <<>>
  /\ i = 0
  /\ s = NoSegment
  /\ l = NoSegment
  /\ left_over = Fin(0)
  /\ here = 0
  /\ number = -1
  /\ index = 0
  /\ result = 0

Init ==
  /\ weights \in {w \in Vectors(0, MaxN) : Valid(w)}
  /\ InitRest

InitAny ==
  /\ weights \in Vectors(-1, MaxN)
  /\ InitRest

----------------------------------------------------------------------------
\* Actions.

NormalizeWeights ==
  /\ pc = "normalize_weights"
  /\ probabilities_' =
       [k \in 1 .. Len(weights) |->
          Quotient(weights[k], Accumulate(weights), Len(weights))]
  /\ pc' = "create_buckets"
  /\ UNCHANGED <<weights, segments, small, large, buckets_, i, s, l,
                 left_over, here, number, index, result>>

CreateEmpty ==
  /\ pc = "create_buckets"
  /\ N <= 0
  /\ buckets_' = buckets_ \o EmptyTable
  /\ pc' = "done"
  /\ UNCHANGED <<weights, probabilities_, segments, small, large, i, s, l,
                 left_over, here, number, index, result>>

CreateSegments ==
  /\ pc = "create_buckets"
  /\ N > 0
  /\ segments' = [k \in 1 .. N |-> NoSegment]
  /\ small' = 0
  /\ large' = 0
  /\ i' = 0
  /\ pc' = "split"
  /\ UNCHANGED <<weights, probabilities_, buckets_, s, l, left_over, here,
                 number, index, result>>

SplitSmall ==
  /\ pc = "split"
  /\ i < N
  /\ IsSmall(probabilities_[i + 1], D)
  /\ segments' = SmallPush(segments, small, Segment(probabilities_[i + 1], i))
  /\ small' = Pushed(small)
  /\ i' = i + 1
  /\ UNCHANGED <<weights, pc, probabilities_, large, buckets_, s, l,
                 left_over, here, number, index, result>>

SplitLarge ==
  /\ pc = "split"
  /\ i < N
  /\ ~IsSmall(probabilities_[i + 1], D)
  /\ segments' = LargePush(segments, large, Segment(probabilities_[i + 1], i), N)
  /\ large' = Pushed(large)
  /\ i' = i + 1
  /\ UNCHANGED <<weights, pc, probabilities_, small, buckets_, s, l,
                 left_over, here, number, index, result>>

SplitDone ==
  /\ pc = "split"
  /\ i >= N
  /\ i' = 0
  /\ pc' = "main"
  /\ UNCHANGED <<weights, probabilities_, segments, small, large, buckets_,
                 s, l, left_over, here, number, index, result>>

MainPop ==
  /\ pc = "main"
  /\ ~Empty(small) /\ ~Empty(large)
  /\ s' = SmallTop(segments, small)
  /\ l' = LargeTop(segments, large, N)
  /\ small' = Popped(small)
  /\ large' = Popped(large)
  /\ buckets_' = Append(buckets_, MixedBucket(s', l', i, D))
  /\ left_over' = LeftOver(s', l', i, D)
  /\ pc' = "reinsert"
  /\ UNCHANGED <<weights, probabilities_, segments, i, here, number, index,
                 result>>

ReinsertSmall ==
  /\ pc = "reinsert"
  /\ IsSmall(left_over, D)
  /\ segments' = SmallPush(segments, small, Segment(left_over, l.second))
  /\ small' = Pushed(small)
  /\ i' = i + 1
  /\ pc' = "main"
  /\ UNCHANGED <<weights, probabilities_, large, buckets_, s, l, left_over,
                 here, number, index, result>>

ReinsertLarge ==
  /\ pc = "reinsert"
  /\ ~IsSmall(left_over, D)
  /\ segments' = LargePush(segments, large, Segment(left_over, l.second), N)
  /\ large' = Pushed(large)
  /\ i' = i + 1
  /\ pc' = "main"
  /\ UNCHANGED <<weights, probabilities_, small, buckets_, s, l, left_over,
                 here, number, index, result>>

MainDone ==
  /\ pc = "main"
  /\ Empty(small) \/ Empty(large)
  /\ pc' = "pure"
  /\ UNCHANGED <<weights, probabilities_, segments, small, large, buckets_,
                 i, s, l, left_over, here, number, index, result>>

PurePop ==
  /\ pc = "pure"
  /\ ~Empty(large)
  /\ l' = LargeTop(segments, large, N)
  /\ large' = Popped(large)
  /\ buckets_' = Append(buckets_, PureBucket(l'))
  /\ UNCHANGED <<weights, pc, probabilities_, segments, small, i, s,
                 left_over, here, number, index, result>>

PureDone ==
  /\ pc = "pure"
  /\ Empty(large)
  /\ pc' = "drain"
  /\ UNCHANGED <<weights, probabilities_, segments, small, large, buckets_,
                 i, s, l, left_over, here, number, index, result>>

DrainPop ==
  /\ pc = "drain"
  /\ ~Empty(small)
  /\ s' = SmallTop(segments, small)
  /\ small' = Popped(small)
  /\ here' = here + 1
  /\ buckets_' = Append(buckets_, PureBucket(s'))
  /\ UNCHANGED <<weights, pc, probabilities_, segments, large, i, l,
                 left_over, number, index, result>>

DrainDone ==
  /\ pc = "drain"
  /\ Empty(small)
  /\ pc' = "done"
  /\ UNCHANGED <<weights, probabilities_, segments, small, large, buckets_,
                 i, s, l, left_over, here, number, index, result>>

\* operator().  A bucket read outside the table is undefined behaviour: any
\* value may come back.
Sample ==
  /\ pc = "done"
  /\ \E k \in Draws, roundsUp \in BOOLEAN :
       /\ number' = k
       /\ index' = FixIndex(Product(k, roundsUp), Size)
       /\ IF index' + 1 \in DOMAIN buckets_
            THEN result' = Choose(buckets_[index' + 1], k)
            ELSE result' \in (-1) .. Size
  /\ pc' = "sampled"
  /\ UNCHANGED <<weights, probabilities_, segments, small, large, buckets_,
                 i, s, l, left_over, here>>

\* The call returns; the distribution is ready for the next draw.
Return ==
  /\ pc = "sampled"
  /\ number' = -1
  /\ index' = 0
  /\ result' = 0
  /\ pc' = "done"
  /\ UNCHANGED <<weights, probabilities_, segments, small, large, buckets_,
                 i, s, l, left_over, here>>

Build ==
  \/ NormalizeWeights
  \/ CreateEmpty
  \/ CreateSegments
  \/ SplitSmall
  \/ SplitLarge
  \/ SplitDone
  \/ MainPop
  \/ ReinsertSmall
  \/ ReinsertLarge
  \/ MainDone
  \/ PurePop
  \/ PureDone
  \/ DrainPop
  \/ DrainDone

Next == Build \/ Sample \/ Return

\* Valid weight vectors: construction, then draws.
Spec == Init /\ [][Next]_vars

\* Every weight vector, negative weights and zero sums included: construction.
SpecAny == InitAny /\ [][Build]_vars

----------------------------------------------------------------------------
\* Properties.

Built == pc = "done"
Drawn == pc = "sampled"
Outcomes == 0 .. (Len(weights) - 1)

\* What operator() returns for draw k when the product is not rounded.
ExactOutcome(k) == Choose(buckets_[FixIndex(Product(k, FALSE), Size) + 1], k)

\* Total length, in units, of the draws for which operator() returns o.
Length(o) == Cardinality({k \in Draws : ExactOutcome(k) = o})

Max(a, b) == IF a >= b THEN a ELSE b

RECURSIVE Mass(_, _, _)
Mass(segs, from, to) ==
  IF from > to THEN 0 ELSE segs[from].first.v + Mass(segs, from + 1, to)

\* Sum of the masses of the segments on both stacks, in units.
StackMass == Mass(segments, 1, small) + Mass(segments, N - large + 1, N)

\* C1: for valid weights of length n > 0 the finished table samples the
\* normalized distribution: the draws returning k have total length
\* w[k] / sum(w), that is w[k] * n units of 1/(sum(w) * n).
C1_SamplesDistribution ==
  (Built /\ N > 0) => \A o \in Outcomes : Length(o) = weights[o + 1] * N

\* C2: every draw, the largest one with its product rounded up included,
\* reads a bucket inside the table and returns an integer in [0, max(1, n)).
C2_InRange ==
  Drawn => /\ index \in 0 .. (Size - 1)
           /\ result \in 0 .. (Max(1, Len(weights)) - 1)
           /\ (Len(weights) = 0 => result = 0)

C2_Witness == Drawn /\ Len(weights) >= 2 /\ number = D * Size - 1

\* C3: for valid weights no draw returns an outcome whose weight is 0.
C3_ZeroWeightNeverReturned ==
  (Drawn /\ N > 0) => weights[result + 1] # 0

\* C4: construction from a negative weight or a zero sum (n > 0) fails before
\* any bucket is created: no table, no NaN probability, no NaN threshold.
C4_InvalidWeightsFail ==
  (Len(weights) > 0 /\ ~Valid(weights)) =>
    /\ pc # "done"
    /\ buckets_ = <<>>
    /\ \A k \in DOMAIN probabilities_ : ~IsNaN(probabilities_[k])

C6_TableShape ==
  pc = "done" =>
    IF Len(weights) > 0
      THEN /\ Len(buckets_) = Len(weights)
           /\ \A k \in DOMAIN buckets_ :
                buckets_[k].a \in Outcomes /\ buckets_[k].b \in Outcomes
      ELSE buckets_ = <<Bucket(0, 0, Fin(0))>>

C6_Witness == pc = "done" /\ Len(weights) >= 3 /\ here > 0 /\ i > 0

\* C7: in every iteration of the main loop left_over is the mass the heavy
\* outcome keeps after filling the bucket to 1/n, l.mass - (1/n - s.mass);
\* after every iteration the masses on both stacks plus emitted/n sum to 1.
C7_LeftOverIsResidual ==
  /\ pc = "reinsert" =>
       left_over = FSub(l.first, FSub(OneOverN(D), s.first))
  /\ (pc = "main" /\ i > 0) => StackMass + Len(buckets_) * D = N * D

\* C8: for valid weights the small stack is empty when the main loop ends,
\* and the loop draining small segments never runs.
C8_SmallEmptyAfterMain ==
  /\ pc = "pure" => Empty(small)
  /\ here = 0

\* C9: every mixed bucket emitted by the main loop at position i has
\* i/n <= threshold <= (i+1)/n.
C9_ThresholdInSlot ==
  pc = "reinsert" =>
    /\ ~FLess(buckets_[i + 1].t, IOverN(i, D))
    /\ ~FLess(IOverN(i + 1, D), buckets_[i + 1].t)

\* C10: during create_buckets (n > 0) the two stacks stay disjoint and in
\* bounds, no pop leaves a stack below empty, between iterations the stacks
\* and the emitted buckets count n, and the main loop runs at most n - 1
\* times.
C10_StacksDisjoint ==
  pc \in {"split", "main", "reinsert", "pure", "drain"} =>
    /\ small >= 0 /\ large >= 0
    /\ small + large <= N
    /\ pc \in {"main", "pure", "drain"} => small + large + Len(buckets_) = N
    /\ pc = "split" => small + large = i
    /\ pc = "main" => i <= N - 1
    /\ pc = "reinsert" => i + 1 <= N - 1

C10_Witness ==
  pc = "main" /\ ~Empty(small) /\ ~Empty(large) /\ Len(buckets_) > 0

====
